---- MODULE Spec2Model ----
(***************************************************************************)
(* Traffic-light aware shortest paths (src/main.c): the Graph Store, the   *)
(* snapshot file, the signal model, the indexed min-heap and the           *)
(* time-dependent Dijkstra search, each modelled from the C source.        *)
(*                                                                         *)
(* Four specifications share the variables:                                *)
(*   SpecWait      getWaitingTime applied to bounded phases and arrivals   *)
(*   SpecHeap      the heap as dijkstra builds it, then any sequence of    *)
(*                 extractMin and decreaseKey                              *)
(*   SpecDijkstra  one dijkstra call on a bounded well-formed graph        *)
(*   Spec          main(): snapshot load, menu loop, rebuild, save & exit  *)
(*                                                                         *)
(* A C array is a function from the slots that hold a value to that value: *)
(* a slot that was never written is not in the domain, and neither is a    *)
(* slot holding the array's cleared value (NULL for adj, 0.0 for lat/lon). *)
(***************************************************************************)
EXTENDS Integers, Sequences, FiniteSets, TLC

VARIABLES
    city,       \* Graph city (main.c:543): vertices, adj, lights, names, lat, lon
    file,       \* contents of city_data.txt, or NoFile
    pc,         \* position of main()
    ri,         \* loop index i of the junction loop of the rebuild (main.c:575)
    re,         \* roads still to be read by the rebuild loop (main.c:590)
    typed,      \* junctions typed into rebuilds so far
    built,      \* the store was last populated by a successful rebuild
    ub,         \* an array of city has been accessed outside 0..MAX-1
    oobAdj,     \* what a read of city.adj[i], i outside 0..MAX-1, yields
    dpc,        \* position inside dijkstra()
    src, dest,  \* arguments of dijkstra()
    dist, parent, \* int dist[MAX], parent[MAX] (main.c:441-442)
    h,          \* MinHeap *h : size, pos, arr
    hn,         \* HeapNode returned by the last extractMin
    u,          \* junction being expanded (main.c:468)
    p,          \* Edge *p : the rest of the adjacency list being walked
    closed,     \* junctions returned by extractMin so far
    forward,    \* path handed to exportLeafletMap
    path_len,   \* its length; -1 while no export has happened
    wLight, wArr, wpc, wRes, wShift   \* getWaitingTime harness

vars == << city, file, pc, ri, re, typed, built, ub, oobAdj,
           dpc, src, dest, dist, parent, h, hn, u, p, closed, forward, path_len,
           wLight, wArr, wpc, wRes, wShift >>

storeVars == << city, file, pc, ri, re, typed, built, ub, oobAdj >>
searchVars == << dpc, src, dest, dist, parent, h, hn, u, p, closed, forward, path_len >>
waitVars == << wLight, wArr, wpc, wRes, wShift >>

\* ---------------------------------------------------------------- constants
MAX == 50
INF == 999999

\* ------------------------------------------------------------------- bounds
MaxDur == 10        \* largest phase duration tried on getWaitingTime
MaxArrival == 12    \* largest arrival time tried on getWaitingTime
MaxHeapN == 4       \* junctions in the free-standing heap
MaxKey == 1         \* largest finite key handed to decreaseKey
MaxN == 3           \* junctions of the searched graph
MaxE == 3           \* roads of the searched graph
MaxV == 2           \* junctions typed, all rebuilds together
MaxRoads == 2       \* road count typed into a rebuild

\* ------------------------------------------------------------------- arrays
Slots == 0 .. (MAX - 1)
EmptyArray == [i \in {} |-> 0]
\* a[i], where a slot outside the domain holds dflt
Rd(a, i, dflt) == IF i \in DOMAIN a THEN a[i] ELSE dflt
\* a[i] = x
Wr(a, i, x, dflt) ==
    IF x = dflt THEN [j \in DOMAIN a \ {i} |-> a[j]]
    ELSE [j \in DOMAIN a \cup {i} |-> IF j = i THEN x ELSE a[j]]

\* ============================================================ Signal Model
\* C's % truncates towards zero
CRem(a, b) == IF a >= 0 THEN a % b ELSE -((-a) % b)

getWaitingTime_noModulo(light, arrivalTime) ==
    LET cycle == light.red + light.green + light.yellow IN
    IF cycle <= 0 THEN 0
    ELSE LET t == arrivalTime IN
         IF t < light.green THEN 0 ELSE cycle - t

getWaitingTime_greenInclusive(light, arrivalTime) ==
    LET cycle == light.red + light.green + light.yellow IN
    IF cycle <= 0 THEN 0
    ELSE LET t == CRem(arrivalTime, cycle) IN
         IF t <= light.green THEN 0 ELSE cycle - t

getWaitingTime_wrongPeriod(light, arrivalTime) ==
    LET cycle == light.red + light.green + light.yellow IN
    IF cycle <= 0 THEN 0
    ELSE LET t == CRem(arrivalTime, cycle + 1) IN
         IF t < light.green THEN 0 ELSE cycle - t

getWaitingTime(light, arrivalTime) ==
    LET cycle == light.red + light.green + light.yellow IN
    IF cycle <= 0 THEN 0
    ELSE LET t == CRem(arrivalTime, cycle) IN
         IF t < light.green THEN 0 ELSE cycle - t

\* ========================================================= Indexed Min-Heap
\* a NULL HeapNode pointer
NullNode == [v |-> -1, dist |-> -1]

\* createMinHeap(capacity): the first capacity slots of pos and arr are
\* cleared, the rest of the malloc'ed block is never written
createMinHeap(capacity) ==
    [ size |-> 0,
      pos  |-> [i \in 0 .. (capacity - 1) |-> -1],
      arr  |-> [i \in 0 .. (capacity - 1) |-> NullNode] ]

\* swapHeapNode(&arr[a], &arr[b])
swapHeapNode(arr, a, b) == [arr EXCEPT ![a] = arr[b], ![b] = arr[a]]

RECURSIVE minHeapify_noPos(_, _)
minHeapify_noPos(hp, idx) ==
    LET left  == 2 * idx + 1
        right == 2 * idx + 2
        s1 == IF left < hp.size /\ hp.arr[left].dist < hp.arr[idx].dist
              THEN left ELSE idx
        smallest == IF right < hp.size /\ hp.arr[right].dist < hp.arr[s1].dist
                    THEN right ELSE s1
    IN IF smallest # idx
       THEN LET pos1 == [hp.pos EXCEPT ![hp.arr[smallest].v] = idx]
            IN minHeapify_noPos([hp EXCEPT !.pos = pos1,
                                 !.arr = swapHeapNode(hp.arr, smallest, idx)],
                                smallest)
       ELSE hp

RECURSIVE minHeapify(_, _)
minHeapify(hp, idx) ==
    LET left  == 2 * idx + 1
        right == 2 * idx + 2
        s1 == IF left < hp.size /\ hp.arr[left].dist < hp.arr[idx].dist
              THEN left ELSE idx
        smallest == IF right < hp.size /\ hp.arr[right].dist < hp.arr[s1].dist
                    THEN right ELSE s1
    IN IF smallest # idx
       THEN LET pos1 == [hp.pos EXCEPT ![hp.arr[smallest].v] = idx]
                pos2 == [pos1 EXCEPT ![hp.arr[idx].v] = smallest]
            IN minHeapify([hp EXCEPT !.pos = pos2,
                                     !.arr = swapHeapNode(hp.arr, smallest, idx)],
                          smallest)
       ELSE hp

isEmpty(hp) == hp.size = 0

\* extractMin returns the root and leaves the heap changed: [h, root]
extractMin(hp) ==
    IF isEmpty(hp) THEN [h |-> hp, root |-> NullNode]
    ELSE LET root     == hp.arr[0]
             lastNode == hp.arr[hp.size - 1]
             arr1 == [hp.arr EXCEPT ![0] = lastNode]
             pos1 == [hp.pos EXCEPT ![lastNode.v] = 0]
             pos2 == [pos1 EXCEPT ![root.v] = -1]
             h1   == [size |-> hp.size - 1, pos |-> pos2, arr |-> arr1]
         IN [h |-> minHeapify(h1, 0), root |-> root]

\* the while loop of decreaseKey (main.c:315-320)
RECURSIVE siftUp(_, _)
siftUp(hp, i) ==
    LET par == (i - 1) \div 2 IN
    IF i # 0 /\ hp.arr[i].dist < hp.arr[par].dist
    THEN LET pos1 == [hp.pos EXCEPT ![hp.arr[i].v] = par]
             pos2 == [pos1 EXCEPT ![hp.arr[par].v] = i]
         IN siftUp([hp EXCEPT !.pos = pos2,
                              !.arr = swapHeapNode(hp.arr, i, par)], par)
    ELSE hp

decreaseKey_noPresenceTest(hp, v, d) ==
    LET i == IF hp.pos[v] = -1 THEN 0 ELSE hp.pos[v] IN
    siftUp([hp EXCEPT !.arr[i].dist = d], i)

decreaseKey_noSift(hp, v, d) ==
    LET i == hp.pos[v] IN
    IF i = -1 THEN hp
    ELSE [hp EXCEPT !.arr[i].dist = d]

decreaseKey(hp, v, d) ==
    LET i == hp.pos[v] IN
    IF i = -1 THEN hp
    ELSE siftUp([hp EXCEPT !.arr[i].dist = d], i)

isInMinHeap(hp, v) == hp.pos[v] # -1

\* the heap-node loop of dijkstra (main.c:451-458): one INF entry per junction
RECURSIVE initHeapNodes(_, _, _)
initHeapNodes(hp, v, n) ==
    IF v >= n THEN hp
    ELSE initHeapNodes(
            [ size |-> hp.size + 1,
              pos  |-> [hp.pos EXCEPT ![v] = hp.size],
              arr  |-> [hp.arr EXCEPT ![hp.size] = [v |-> v, dist |-> INF]] ],
            v + 1, n)

\* ============================================================== Graph Store
NoLight == [red |-> 0, green |-> 0, yellow |-> 0]
NoName == ""

\* Graph city as main() declares it: nothing in it has been written
FreshGraph ==
    [ vertices |-> 0, adj |-> EmptyArray, lights |-> EmptyArray,
      names |-> EmptyArray, lat |-> EmptyArray, lon |-> EmptyArray ]

\* vertices = 0; every adj[i] = NULL, lat[i] = lon[i] = 0.0
initGraph(g) ==
    [g EXCEPT !.vertices = 0, !.adj = EmptyArray,
              !.lat = EmptyArray, !.lon = EmptyArray]

newEdge(to, weight) == [to |-> to, weight |-> weight]

\* e->next = g->adj[a]; g->adj[a] = e
pushEdge(adj, a, e) == Wr(adj, a, << e >> \o Rd(adj, a, << >>), << >>)

addEdge_oneWay(g, a, b, w) ==
    IF a < 0 \/ a >= g.vertices \/ b < 0 \/ b >= g.vertices THEN g
    ELSE [g EXCEPT !.adj = pushEdge(g.adj, a, newEdge(b, w))]

addEdge(g, a, b, w) ==
    IF a < 0 \/ a >= g.vertices \/ b < 0 \/ b >= g.vertices THEN g
    ELSE [g EXCEPT !.adj = pushEdge(pushEdge(g.adj, a, newEdge(b, w)), b, newEdge(a, w))]

\* freeGraph: adj[i] = NULL for i < vertices (the slots inside the array)
freeGraph(g) ==
    [g EXCEPT !.adj = [i \in {j \in DOMAIN g.adj : j >= g.vertices} |-> g.adj[i]]]

\* the adjacency list a reader of g->adj[i] walks
AdjOf(g, oob, i) == IF i \in Slots THEN Rd(g.adj, i, << >>) ELSE oob

\* --------------------------------------------------------- snapshot file
\* Coordinates are kept in units of 1e-7 degree; the file carries them with
\* six decimals, that is in whole micro-degrees.
\* fprintf "%.6f"
Fmt6(x) == IF x >= 0 THEN (x + 5) \div 10 ELSE -((5 - x) \div 10)

\* fscanf "%lf" of a six-decimal text
Scan6(m) == m * 10

NoFile == [present |-> FALSE, v |-> 0, juncs |-> << >>, edges |-> << >>]

\* the lines "u v w" saveGraphToFile prints for junction a: entries with a < to
RECURSIVE edgeLines(_, _)
edgeLines(a, list) ==
    IF list = << >> THEN << >>
    ELSE (IF a < Head(list).to THEN << << a, Head(list).to, Head(list).weight >> >>
          ELSE << >>) \o edgeLines(a, Tail(list))

RECURSIVE allEdgeLines(_, _, _)
allEdgeLines(g, oob, a) ==
    IF a >= g.vertices THEN << >>
    ELSE edgeLines(a, AdjOf(g, oob, a)) \o allEdgeLines(g, oob, a + 1)

\* the junction line of slot i; oobLine is what the read of a slot outside the
\* arrays yields
junctionLine(g, i, oobLine) ==
    IF i \notin Slots THEN oobLine
    ELSE [ name |-> Rd(g.names, i, NoName),
           red |-> Rd(g.lights, i, NoLight).red,
           green |-> Rd(g.lights, i, NoLight).green,
           yellow |-> Rd(g.lights, i, NoLight).yellow,
           lat |-> Fmt6(Rd(g.lat, i, 0)),
           lon |-> Fmt6(Rd(g.lon, i, 0)) ]

saveGraphToFile(g, oob, oobLine) ==
    [ present |-> TRUE,
      v |-> g.vertices,
      juncs |-> [i \in 1 .. g.vertices |-> junctionLine(g, i - 1, oobLine)],
      edges |-> allEdgeLines(g, oob, 0) ]

\* lines 179-212 for junction i: a six-field line, or at end of file the
\* defaults J<i>, 10/5/2, 0.0 0.0; only slots inside the arrays are written
RECURSIVE loadJunctions(_, _, _)
loadJunctions(g, f, i) ==
    IF i >= f.v THEN g
    ELSE IF i \notin Slots THEN loadJunctions(g, f, i + 1)
    ELSE LET l == IF i + 1 <= Len(f.juncs)
                  THEN [ name |-> f.juncs[i + 1].name,
                         light |-> [ red |-> f.juncs[i + 1].red,
                                     green |-> f.juncs[i + 1].green,
                                     yellow |-> f.juncs[i + 1].yellow ],
                         lat |-> Scan6(f.juncs[i + 1].lat),
                         lon |-> Scan6(f.juncs[i + 1].lon) ]
                  ELSE [ name |-> "J" \o ToString(i),
                         light |-> [red |-> 10, green |-> 5, yellow |-> 2],
                         lat |-> 0, lon |-> 0 ]
         IN loadJunctions(
              [g EXCEPT !.names  = Wr(g.names, i, l.name, NoName),
                        !.lights = Wr(g.lights, i, l.light, NoLight),
                        !.lat    = Wr(g.lat, i, l.lat, 0),
                        !.lon    = Wr(g.lon, i, l.lon, 0)],
              f, i + 1)

\* lines 216-226: both entries are linked in without looking at u and vv
RECURSIVE loadEdges(_, _, _)
loadEdges(g, edges, k) ==
    IF k > Len(edges) THEN g
    ELSE LET a == edges[k][1]
             b == edges[k][2]
             w == edges[k][3]
             adj1 == IF a \in Slots THEN pushEdge(g.adj, a, newEdge(b, w)) ELSE g.adj
             adj2 == IF b \in Slots THEN pushEdge(adj1, b, newEdge(a, w)) ELSE adj1
         IN loadEdges([g EXCEPT !.adj = adj2], edges, k + 1)

\* the store loadGraphFromFile leaves, as far as it lies inside the arrays
loadGraphFromFile(g, f) ==
    IF ~f.present THEN initGraph(g)
    ELSE LET g0 == [initGraph(g) EXCEPT !.vertices = f.v]
             g1 == loadJunctions(g0, f, 0)
         IN IF Len(f.juncs) >= f.v THEN loadEdges(g1, f.edges, 1) ELSE g1

\* loadGraphFromFile writes outside an array of city
loadOutOfBounds(f) ==
    /\ f.present
    /\ \/ f.v > MAX
       \/ /\ Len(f.juncs) >= f.v
          /\ \E k \in 1 .. Len(f.edges) :
               f.edges[k][1] \notin Slots \/ f.edges[k][2] \notin Slots

\* =================================================== Dijkstra (time-dependent)
\* lines 480-482: arrival, wait and newDist for the edge e leaving a junction
\* whose distance is du
newDist_waitAtDeparture(g, du, e) ==
    LET wait == getWaitingTime(Rd(g.lights, e.to, NoLight), du) IN du + e.weight + wait

newDist_shortens(g, du, e) ==
    LET arrival == du + e.weight
        wait    == getWaitingTime(Rd(g.lights, e.to, NoLight), arrival)
    IN du + e.weight + wait - 1

newDist(g, du, e) ==
    LET arrival == du + e.weight
        wait    == getWaitingTime(Rd(g.lights, e.to, NoLight), arrival)
    IN du + e.weight + wait

\* lines 509-510: for (v = dest; v != -1; v = parent[v]) path[idx++] = v;
\* path[] has MAX slots
RECURSIVE parentWalk(_, _, _)
parentWalk(par, v, path) ==
    IF v = -1 \/ Len(path) >= MAX THEN path
    ELSE parentWalk(par, par[v], Append(path, v))

\* lines 520-521: forward[i] = path[idx-1-i]
forwardPath_notReversed(path) == path

forwardPath(path) == [i \in 1 .. Len(path) |-> path[Len(path) + 1 - i]]

\* ------------------------------------------------- idle parts of the state
StoreIdle ==
    /\ city = FreshGraph /\ file = NoFile /\ pc = "off"
    /\ ri = 0 /\ re = 0 /\ typed = 0 /\ built = FALSE
    /\ ub = FALSE /\ oobAdj = << >>

SearchIdle ==
    /\ dpc = "off" /\ src = 0 /\ dest = 0
    /\ dist = EmptyArray /\ parent = EmptyArray
    /\ h = createMinHeap(0) /\ hn = NullNode /\ u = -1 /\ p = << >>
    /\ closed = {} /\ forward = << >> /\ path_len = -1

WaitIdle ==
    /\ wLight = NoLight /\ wArr = 0 /\ wpc = "off" /\ wRes = 0 /\ wShift = 0

\* ===================================================== SpecWait: the signal
PhaseDurations == (-1) .. MaxDur
WaitLights == [red : PhaseDurations, green : PhaseDurations, yellow : PhaseDurations]
Cycle(light) == light.red + light.green + light.yellow
NonNegative(light) == light.red >= 0 /\ light.green >= 0 /\ light.yellow >= 0

WaitInit ==
    /\ StoreIdle /\ SearchIdle
    /\ wLight \in WaitLights /\ wArr \in 0 .. MaxArrival
    /\ wpc = "idle" /\ wRes = 0 /\ wShift = 0

\* wait = getWaitingTime(light, arrival)
CallWait ==
    /\ wpc = "idle"
    /\ wRes' = getWaitingTime(wLight, wArr)
    /\ wpc' = "called"
    /\ UNCHANGED << wLight, wArr, wShift >>
    /\ UNCHANGED storeVars /\ UNCHANGED searchVars

\* the same light asked one full cycle later
CallWaitShifted ==
    /\ wpc = "called"
    /\ wShift' = getWaitingTime(wLight, wArr + Cycle(wLight))
    /\ wpc' = "shifted"
    /\ UNCHANGED << wLight, wArr, wRes >>
    /\ UNCHANGED storeVars /\ UNCHANGED searchVars

WaitNext == CallWait \/ CallWaitShifted

SpecWait == WaitInit /\ [][WaitNext]_vars

\* ========================================================= SpecHeap: the heap
HeapKeys == (0 .. MaxKey) \cup {INF}
\* number of junctions the heap was created for
HeapCap(hp) == Cardinality(DOMAIN hp.pos)

HeapInit ==
    /\ StoreIdle /\ WaitIdle
    /\ dpc = "heap" /\ src = 0 /\ dest = 0
    /\ dist = EmptyArray /\ parent = EmptyArray
    /\ \E n \in 1 .. MaxHeapN : h = initHeapNodes(createMinHeap(n), 0, n)
    /\ hn = NullNode /\ u = -1 /\ p = << >>
    /\ closed = {} /\ forward = << >> /\ path_len = -1

HeapExtractMin ==
    /\ dpc = "heap"
    /\ LET r == extractMin(h) IN
         /\ h' = r.h
         /\ hn' = r.root
         /\ closed' = IF r.root = NullNode THEN closed ELSE closed \cup {r.root.v}
    /\ UNCHANGED << dpc, src, dest, dist, parent, u, p, forward, path_len >>
    /\ UNCHANGED storeVars /\ UNCHANGED waitVars

\* decreaseKey(h, v, d); the caller never raises the key of an open junction
HeapDecreaseKey ==
    /\ dpc = "heap"
    /\ \E v \in 0 .. (HeapCap(h) - 1), d \in HeapKeys :
         /\ isInMinHeap(h, v) => d <= h.arr[h.pos[v]].dist
         /\ h' = decreaseKey(h, v, d)
    /\ UNCHANGED << dpc, src, dest, dist, parent, hn, u, p, closed, forward, path_len >>
    /\ UNCHANGED storeVars /\ UNCHANGED waitVars

HeapNext == HeapExtractMin \/ HeapDecreaseKey

SpecHeap == HeapInit /\ [][HeapNext]_vars

\* ================================================ SpecDijkstra: one search
SearchPhases == { [red |-> 0, green |-> 1, yellow |-> 0],
                  [red |-> 1, green |-> 1, yellow |-> 1] }
\* roads u v w as typed into a rebuild: u < v with weight 1, the zero-weight
\* road between the neighbours i and i + 1, the self-loop 0 0 1, and the long
\* road 0 1 INF-1
SearchRoads(n) ==
    { r \in (0 .. (n - 1)) \X (0 .. (n - 1)) \X {1} : r[1] < r[2] }
      \cup { << i, i + 1, 0 >> : i \in 0 .. (n - 2) }
      \cup { << 0, 0, 1 >> }
      \cup (IF n >= 2 THEN { << 0, 1, INF - 1 >> } ELSE {})

\* the order in which a set of roads is typed: by u, then v, then weight
RoadBefore(r, q) ==
    \/ r[1] < q[1]
    \/ r[1] = q[1] /\ r[2] < q[2]
    \/ r[1] = q[1] /\ r[2] = q[2] /\ r[3] <= q[3]

RECURSIVE RoadsInOrder(_)
RoadsInOrder(S) ==
    IF S = {} THEN << >>
    ELSE LET r == CHOOSE x \in S : \A q \in S : RoadBefore(x, q)
         IN << r >> \o RoadsInOrder(S \ {r})

\* at most MaxE distinct roads, typed in order
RoadLists(n) ==
    { RoadsInOrder(S) : S \in { T \in SUBSET SearchRoads(n) : Cardinality(T) <= MaxE } }

RECURSIVE addEdges(_, _, _)
addEdges(g, roads, i) ==
    IF i > Len(roads) THEN g
    ELSE addEdges(addEdge(g, roads[i][1], roads[i][2], roads[i][3]), roads, i + 1)

\* a store as a valid rebuild leaves it: n junctions, their phases, the roads
BuiltGraph(n, ph, roads) ==
    LET g1 == [initGraph(FreshGraph) EXCEPT
                 !.vertices = n,
                 !.lights = [i \in 0 .. (n - 1) |-> ph[i]],
                 !.names = [i \in 0 .. (n - 1) |-> "J" \o ToString(i)]]
    IN addEdges(g1, roads, 1)

DijkstraInit ==
    /\ WaitIdle
    /\ \E n \in 1 .. MaxN :
         /\ \E ph \in [0 .. (n - 1) -> SearchPhases], roads \in RoadLists(n) :
              city = BuiltGraph(n, ph, roads)
         /\ src \in 0 .. n /\ dest \in 0 .. n
         /\ (src = n \/ dest = n) => (src = n /\ dest = 0)
    /\ file = NoFile /\ pc = "off" /\ ri = 0 /\ re = 0 /\ typed = 0
    /\ built = TRUE /\ ub = FALSE /\ oobAdj = << >>
    /\ dpc = "start"
    /\ dist = EmptyArray /\ parent = EmptyArray
    /\ h = createMinHeap(0) /\ hn = NullNode /\ u = -1 /\ p = << >>
    /\ closed = {} /\ forward = << >> /\ path_len = -1

DijkstraStart_sourceNotZero ==
    /\ dpc = "start"
    /\ LET n == city.vertices IN
       IF src < 0 \/ src >= n \/ dest < 0 \/ dest >= n
       THEN /\ dpc' = "invalid"
            /\ UNCHANGED << dist, parent, h >>
       ELSE LET h0 == initHeapNodes(createMinHeap(n), 0, n)
                h1 == [h0 EXCEPT !.arr[h0.pos[src]].dist = 0]
            IN /\ dist' = [i \in 0 .. (n - 1) |-> INF]
               /\ parent' = [i \in 0 .. (n - 1) |-> -1]
               /\ h' = decreaseKey(h1, src, 0)
               /\ dpc' = "loop"
    /\ UNCHANGED << src, dest, hn, u, p, closed, forward, path_len >>
    /\ UNCHANGED storeVars /\ UNCHANGED waitVars

\* lines 435-463: argument check, dist/parent, heap build, source at 0
DijkstraStart ==
    /\ dpc = "start"
    /\ LET n == city.vertices IN
       IF src < 0 \/ src >= n \/ dest < 0 \/ dest >= n
       THEN /\ dpc' = "invalid"
            /\ UNCHANGED << dist, parent, h >>
       ELSE LET h0 == initHeapNodes(createMinHeap(n), 0, n)
                h1 == [h0 EXCEPT !.arr[h0.pos[src]].dist = 0]
            IN /\ dist' = [i \in 0 .. (n - 1) |-> IF i = src THEN 0 ELSE INF]
               /\ parent' = [i \in 0 .. (n - 1) |-> -1]
               /\ h' = decreaseKey(h1, src, 0)
               /\ dpc' = "loop"
    /\ UNCHANGED << src, dest, hn, u, p, closed, forward, path_len >>
    /\ UNCHANGED storeVars /\ UNCHANGED waitVars

DijkstraExtract_keepsHeap ==
    /\ dpc = "loop"
    /\ IF isEmpty(h)
       THEN /\ dpc' = "build"
            /\ UNCHANGED << h, hn, u, p, closed >>
       ELSE LET r == extractMin(h)
                list == Rd(city.adj, r.root.v, << >>)
            IN /\ h' = h
               /\ hn' = r.root
               /\ u' = r.root.v
               /\ closed' = closed \cup {r.root.v}
               /\ IF r.root.dist = INF \/ r.root.v = dest
                  THEN dpc' = "build" /\ p' = << >>
                  ELSE /\ p' = list
                       /\ dpc' = IF list = << >> THEN "loop" ELSE "relax"
    /\ UNCHANGED << src, dest, dist, parent, forward, path_len >>
    /\ UNCHANGED storeVars /\ UNCHANGED waitVars

\* lines 465-475: loop test, extractMin, the two early exits, p = g->adj[u]
DijkstraExtract ==
    /\ dpc = "loop"
    /\ IF isEmpty(h)
       THEN /\ dpc' = "build"
            /\ UNCHANGED << h, hn, u, p, closed >>
       ELSE LET r == extractMin(h)
                list == Rd(city.adj, r.root.v, << >>)
            IN /\ h' = r.h
               /\ hn' = r.root
               /\ u' = r.root.v
               /\ closed' = closed \cup {r.root.v}
               /\ IF r.root.dist = INF \/ r.root.v = dest
                  THEN dpc' = "build" /\ p' = << >>
                  ELSE /\ p' = list
                       /\ dpc' = IF list = << >> THEN "loop" ELSE "relax"
    /\ UNCHANGED << src, dest, dist, parent, forward, path_len >>
    /\ UNCHANGED storeVars /\ UNCHANGED waitVars

DijkstraRelax_keepsParent ==
    /\ dpc = "relax"
    /\ LET e == Head(p)
           v == e.to
           nd == newDist(city, dist[u], e)
       IN IF h.pos[v] # -1 /\ nd < dist[v]
          THEN /\ dist' = [dist EXCEPT ![v] = nd]
               /\ h' = decreaseKey([h EXCEPT !.arr[h.pos[v]].dist = nd], v, nd)
               /\ UNCHANGED parent
          ELSE UNCHANGED << dist, parent, h >>
    /\ p' = Tail(p)
    /\ dpc' = IF Tail(p) = << >> THEN "loop" ELSE "relax"
    /\ UNCHANGED << src, dest, hn, u, closed, forward, path_len >>
    /\ UNCHANGED storeVars /\ UNCHANGED waitVars

\* lines 476-494: one turn of while (p)
DijkstraRelax ==
    /\ dpc = "relax"
    /\ LET e == Head(p)
           v == e.to
           nd == newDist(city, dist[u], e)
       IN IF h.pos[v] # -1 /\ nd < dist[v]
          THEN /\ dist' = [dist EXCEPT ![v] = nd]
               /\ parent' = [parent EXCEPT ![v] = u]
               /\ h' = decreaseKey([h EXCEPT !.arr[h.pos[v]].dist = nd], v, nd)
          ELSE UNCHANGED << dist, parent, h >>
    /\ p' = Tail(p)
    /\ dpc' = IF Tail(p) = << >> THEN "loop" ELSE "relax"
    /\ UNCHANGED << src, dest, hn, u, closed, forward, path_len >>
    /\ UNCHANGED storeVars /\ UNCHANGED waitVars

DijkstraBuildPath_noInfTest ==
    /\ dpc = "build"
    /\ LET path == parentWalk(parent, dest, << >>) IN
         /\ forward' = forwardPath(path)
         /\ path_len' = Len(path)
    /\ dpc' = "done"
    /\ UNCHANGED << src, dest, dist, parent, h, hn, u, p, closed >>
    /\ UNCHANGED storeVars /\ UNCHANGED waitVars

\* lines 497-525: report, rebuild the path, export the map
DijkstraBuildPath ==
    /\ dpc = "build"
    /\ IF dist[dest] = INF
       THEN /\ forward' = << >>
            /\ path_len' = 0
       ELSE LET path == parentWalk(parent, dest, << >>) IN
            /\ forward' = forwardPath(path)
            /\ path_len' = Len(path)
    /\ dpc' = "done"
    /\ UNCHANGED << src, dest, dist, parent, h, hn, u, p, closed >>
    /\ UNCHANGED storeVars /\ UNCHANGED waitVars

DijkstraNext ==
    DijkstraStart \/ DijkstraExtract \/ DijkstraRelax \/ DijkstraBuildPath

SpecDijkstra == DijkstraInit /\ [][DijkstraNext]_vars

\* ======================================================== Spec: main()
\* what the user types for one junction of a rebuild: name, R G Y, lat lon
JunctionInputs ==
    { [ name |-> "A", light |-> [red |-> 10, green |-> 5, yellow |-> 2],
        lat |-> 286139000, lon |-> 772090000 ],
      [ name |-> "B", light |-> [red |-> 0, green |-> 100, yellow |-> 0],
        lat |-> 190760004, lon |-> 0 ] }
RoadWeights == {4, 10}
\* junction ids typed for a road: every id in range, and one on either side
RoadEnds(g) == (-1) .. g.vertices
\* junction counts typed into a rebuild
VCountInputs == (0 .. MaxV) \cup {MAX + 1}

FileLine(name, r, g, y, la, lo) ==
    [name |-> name, red |-> r, green |-> g, yellow |-> y, lat |-> la, lon |-> lo]

\* city_data.txt as the program may find it at start-up
ExternalFiles ==
    { NoFile,
      \* two junctions and the road 0 1 4
      [ present |-> TRUE, v |-> 2,
        juncs |-> << FileLine("A", 10, 5, 2, 28613900, 77209000),
                     FileLine("B", 0, 100, 0, 19076000, 72877700) >>,
        edges |-> << << 0, 1, 4 >> >> ],
      \* one junction and a road to an id that is no junction
      [ present |-> TRUE, v |-> 1,
        juncs |-> << FileLine("A", 10, 5, 2, 28613900, 77209000) >>,
        edges |-> << << 0, 1, 4 >> >> ],
      \* a negative junction count
      [ present |-> TRUE, v |-> -1, juncs |-> << >>, edges |-> << >> ],
      \* a junction count above MAX, and nothing else
      [ present |-> TRUE, v |-> MAX + 1, juncs |-> << >>, edges |-> << >> ] }

\* outcomes of reading city.adj[i] and the junction fields outside the arrays
OobLists == { << >>, << newEdge(0, 4) >> }
OobLines == { FileLine("A", 10, 5, 2, 0, 0), FileLine("?", 0, 0, 0, 0, 0) }

Init ==
    /\ SearchIdle /\ WaitIdle
    /\ city = FreshGraph /\ file \in ExternalFiles /\ pc = "start"
    /\ ri = 0 /\ re = 0 /\ typed = 0 /\ built = FALSE
    /\ ub = FALSE /\ oobAdj = << >>

\* main.c:543-549, for the first run and for every run after a Save & Exit
Startup ==
    /\ pc \in {"start", "exited"}
    /\ city' = loadGraphFromFile(FreshGraph, file)
    /\ ub' = loadOutOfBounds(file)
    /\ oobAdj' \in (IF loadOutOfBounds(file) THEN OobLists ELSE {<< >>})
    /\ pc' = "menu"
    /\ ri' = 0 /\ re' = 0 /\ built' = FALSE
    /\ UNCHANGED << file, typed >>
    /\ UNCHANGED searchVars /\ UNCHANGED waitVars

\* choice 1, main.c:565-574: freeGraph, then the junction count is read
RebuildBegin ==
    /\ pc = "menu"
    /\ oobAdj' = IF city.vertices > MAX THEN << >> ELSE oobAdj
    /\ \E vcount \in VCountInputs :
         IF vcount < 1 \/ vcount > MAX
         THEN /\ city' = freeGraph(city)
              /\ pc' = "menu"
              /\ UNCHANGED << ri, typed, built >>
         ELSE /\ typed + vcount <= MaxV
              /\ typed' = typed + vcount
              /\ city' = [freeGraph(city) EXCEPT !.vertices = vcount]
              /\ pc' = "junction"
              /\ ri' = 0
              /\ built' = TRUE
    /\ UNCHANGED << file, re, ub >>
    /\ UNCHANGED searchVars /\ UNCHANGED waitVars

RebuildJunction_keepsAdj ==
    /\ pc = "junction"
    /\ \E j \in JunctionInputs :
         city' = [city EXCEPT !.names  = Wr(city.names, ri, j.name, NoName),
                              !.lights = Wr(city.lights, ri, j.light, NoLight),
                              !.lat    = Wr(city.lat, ri, j.lat, 0),
                              !.lon    = Wr(city.lon, ri, j.lon, 0)]
    /\ ri' = ri + 1
    /\ pc' = IF ri + 1 < city.vertices THEN "junction" ELSE "roadcount"
    /\ UNCHANGED << file, re, typed, built, ub, oobAdj >>
    /\ UNCHANGED searchVars /\ UNCHANGED waitVars

\* main.c:575-584: one turn of the junction loop
RebuildJunction ==
    /\ pc = "junction"
    /\ \E j \in JunctionInputs :
         city' = [city EXCEPT !.names  = Wr(city.names, ri, j.name, NoName),
                              !.lights = Wr(city.lights, ri, j.light, NoLight),
                              !.lat    = Wr(city.lat, ri, j.lat, 0),
                              !.lon    = Wr(city.lon, ri, j.lon, 0),
                              !.adj    = Wr(city.adj, ri, << >>, << >>)]
    /\ ri' = ri + 1
    /\ pc' = IF ri + 1 < city.vertices THEN "junction" ELSE "roadcount"
    /\ UNCHANGED << file, re, typed, built, ub, oobAdj >>
    /\ UNCHANGED searchVars /\ UNCHANGED waitVars

\* main.c:586-589: the number of roads is read
RebuildRoadCount ==
    /\ pc = "roadcount"
    /\ \E e \in 0 .. MaxRoads :
         /\ re' = e
         /\ pc' = IF e > 0 THEN "road" ELSE "menu"
    /\ UNCHANGED << city, file, ri, typed, built, ub, oobAdj >>
    /\ UNCHANGED searchVars /\ UNCHANGED waitVars

\* main.c:590-594: one turn of the road loop, addEdge(&city, u, v, w)
RebuildRoad ==
    /\ pc = "road"
    /\ \E a \in RoadEnds(city), b \in RoadEnds(city), w \in RoadWeights :
         city' = addEdge(city, a, b, w)
    /\ re' = re - 1
    /\ pc' = IF re - 1 > 0 THEN "road" ELSE "menu"
    /\ UNCHANGED << file, ri, typed, built, ub, oobAdj >>
    /\ UNCHANGED searchVars /\ UNCHANGED waitVars

\* choice 4, main.c:609-612 and 626-629: save, leave the loop, freeGraph
SaveAndExit ==
    /\ pc = "menu"
    /\ \E oobLine \in (IF city.vertices > MAX THEN OobLines
                       ELSE {FileLine("?", 0, 0, 0, 0, 0)}) :
         file' = saveGraphToFile(city, oobAdj, oobLine)
    /\ city' = freeGraph(city)
    /\ oobAdj' = IF city.vertices > MAX THEN << >> ELSE oobAdj
    /\ pc' = "exited"
    /\ UNCHANGED << ri, re, typed, built, ub >>
    /\ UNCHANGED searchVars /\ UNCHANGED waitVars

\* after an access outside the arrays the process may also die
Crash ==
    /\ pc = "menu" /\ ub
    /\ pc' = "crashed"
    /\ UNCHANGED << city, file, ri, re, typed, built, ub, oobAdj >>
    /\ UNCHANGED searchVars /\ UNCHANGED waitVars

\* choices 2, 3 and 5 (display, search, map export) leave the store as it is;
\* the search is SpecDijkstra
Next ==
    \/ Startup
    \/ RebuildBegin
    \/ RebuildJunction
    \/ RebuildRoadCount
    \/ RebuildRoad
    \/ SaveAndExit
    \/ Crash

Spec == Init /\ [][Next]_vars

\* ================================================================== claims
\* the reference function of the specification (section 4.2)
RefWaitingTime(light, t) ==
    LET cycle == light.red + light.green + light.yellow IN
    IF cycle <= 0 THEN 0
    ELSE IF (t % cycle) < light.green THEN 0
    ELSE cycle - (t % cycle)

\* cost of every simple path from `at` (reached at time t) to dest, each step
\* adding the road weight and the wait at the junction entered
RECURSIVE PathCosts(_, _, _)
PathCosts(at, t, seen) ==
    IF at = dest THEN {t}
    ELSE LET list == Rd(city.adj, at, << >>) IN
         UNION { PathCosts(list[k].to,
                           t + list[k].weight
                             + RefWaitingTime(city.lights[list[k].to], t + list[k].weight),
                           seen \cup {list[k].to})
                 : k \in { j \in 1 .. Len(list) : list[j].to \notin seen } }

MinOf(S) == CHOOSE m \in S : \A x \in S : m <= x

Reported == dpc = "done" /\ dist[dest] # INF

OpenDists(hp) == {hp.arr[i].dist : i \in 0 .. (hp.size - 1)}

\* C2: every extractMin returns an entry whose distance is the minimum over
\* the entries that were in the heap when it was called.
C2_ExtractMinReturnsMinimum ==
    [][(h.size > 0 /\ h'.size = h.size - 1)
         => /\ \E i \in 0 .. (h.size - 1) : h.arr[i] = hn'
            /\ \A d \in OpenDists(h) : hn'.dist <= d]_vars

\* an extraction that returned a junction whose key had been lowered
C2_Witness ==
    /\ dpc = "heap" /\ hn # NullNode /\ hn.v # 0 /\ hn.dist < INF
    /\ h.size >= 2

\* C3: the position index is consistent: pos[v] = -1 exactly for the extracted
\* junctions, and otherwise it is the slot below size that holds v's entry;
\* hence isInMinHeap(v) exactly when v has not been extracted.
C3_PositionIndexConsistent ==
    dpc = "heap" =>
      \A v \in 0 .. (HeapCap(h) - 1) :
        /\ (h.pos[v] = -1) <=> (v \in closed)
        /\ h.pos[v] # -1 => /\ 0 <= h.pos[v] /\ h.pos[v] < h.size
                            /\ h.arr[h.pos[v]].v = v
        /\ isInMinHeap(h, v) <=> (v \notin closed)

\* an extraction and a sift have both moved entries away from their build slot
C3_Witness ==
    /\ dpc = "heap" /\ closed # {} /\ h.size >= 2
    /\ \E v \in 0 .. (HeapCap(h) - 1) : h.pos[v] # -1 /\ h.pos[v] # v

\* C4: a reported path starts at the source, ends at the destination, and each
\* consecutive pair (a, b) is a road of the store: b is in the adjacency list
\* of a with the weight that gave b its distance.
C4_PathFollowsRoads ==
    Reported =>
      /\ path_len = Len(forward) /\ path_len >= 1
      /\ forward[1] = src /\ forward[path_len] = dest
      /\ \A i \in 1 .. (path_len - 1) :
           \E k \in 1 .. Len(Rd(city.adj, forward[i], << >>)) :
             LET e == city.adj[forward[i]][k] IN
               /\ e.to = forward[i + 1]
               /\ dist[e.to] = dist[forward[i]] + e.weight
                    + RefWaitingTime(city.lights[e.to], dist[forward[i]] + e.weight)

\* a reported path over an intermediate junction
C4_Witness ==
    /\ Reported /\ path_len = 3 /\ forward[1] = src /\ forward[3] = dest
    /\ forward[2] # src /\ forward[2] # dest

\* C5 as stated: for non-negative durations with cycle >= 1 and arrival >= 0
\* the waiting time lies in [0, cycle).
C5_Original ==
    (wpc \in {"called", "shifted"} /\ NonNegative(wLight) /\ Cycle(wLight) >= 1)
      => (0 <= wRes /\ wRes < Cycle(wLight))

\* C5 (amended): for non-negative durations with cycle >= 1 and arrival >= 0
\* the waiting time lies in [0, cycle], and in [0, cycle) when green >= 1.
C5_WaitWithinCycle ==
    (wpc \in {"called", "shifted"} /\ NonNegative(wLight) /\ Cycle(wLight) >= 1)
      => /\ 0 <= wRes /\ wRes <= Cycle(wLight)
         /\ wLight.green >= 1 => wRes < Cycle(wLight)

\* a light with no green asked at the start of its cycle: the wait is a full cycle
C5_Witness ==
    /\ wpc = "called" /\ NonNegative(wLight) /\ wLight.green = 0
    /\ Cycle(wLight) >= 1 /\ wRes = Cycle(wLight)

\* C6: getWaitingTime agrees with the reference function: 0 when cycle <= 0,
\* 0 when (arrival mod cycle) < green, cycle - (arrival mod cycle) otherwise.
C6_MatchesReference ==
    wpc \in {"called", "shifted"} => wRes = RefWaitingTime(wLight, wArr)

\* red=10 green=5 yellow=0, arrival 12: wait 3, departure at 15
C6_Witness ==
    /\ wpc = "called" /\ wLight = [red |-> 10, green |-> 5, yellow |-> 0]
    /\ wArr = 12 /\ wRes = 3 /\ wArr + wRes = 15

\* C7: for cycle >= 1 the waiting time at t and at t + cycle are the same.
C7_Periodic ==
    (wpc = "shifted" /\ Cycle(wLight) >= 1) => wRes = wShift

\* both calls made, on a light that makes the traveller wait
C7_Witness ==
    /\ wpc = "shifted" /\ Cycle(wLight) >= 1 /\ wRes > 0 /\ wArr > 0

\* number of entries (to, w) in an adjacency list
Count(list, to, w) ==
    Cardinality({k \in 1 .. Len(list) : list[k] = newEdge(to, w)})

SameEntries(l1, l2) ==
    /\ Len(l1) = Len(l2)
    /\ \A k \in 1 .. Len(l1) :
         Count(l1, l1[k].to, l1[k].weight) = Count(l2, l1[k].to, l1[k].weight)

\* the same junction count, junction by junction the same name, phase and
\* coordinates, and the same roads whatever their order
SameStore(g1, g2) ==
    /\ g1.vertices = g2.vertices
    /\ \A i \in 0 .. (g1.vertices - 1) :
         /\ Rd(g1.names, i, NoName) = Rd(g2.names, i, NoName)
         /\ Rd(g1.lights, i, NoLight) = Rd(g2.lights, i, NoLight)
         /\ Rd(g1.lat, i, 0) = Rd(g2.lat, i, 0)
         /\ Rd(g1.lon, i, 0) = Rd(g2.lon, i, 0)
         /\ SameEntries(Rd(g1.adj, i, << >>), Rd(g2.adj, i, << >>))

\* C8 as stated: a store populated by a rebuild, saved and loaded again, is the
\* same store: junction count, names, phases, coordinates and roads with their
\* weights, self-loops and parallel roads included.
C8_Original ==
    [][(pc = "menu" /\ pc' = "exited" /\ built /\ ~ub)
         => SameStore(city, loadGraphFromFile(FreshGraph, file'))]_vars

C10_Original ==
    pc # "start" => (0 <= city.vertices /\ city.vertices <= MAX)

\* C11 as stated: a rebuild given a junction count outside 1..MAX leaves the
\* store as it was: the junction count and every adjacency list are unchanged.
C11_Original ==
    [][(pc = "menu" /\ pc' = "menu" /\ ~ub)
         => (city'.vertices = city.vertices /\ city'.adj = city.adj)]_vars

\* the entries addEdge(a, b, w) links in at the head of the list of junction x
AddedTo(x, a, b, w) ==
    (IF x = b THEN << newEdge(a, w) >> ELSE << >>)
      \o (IF x = a THEN << newEdge(b, w) >> ELSE << >>)

\* C12: whenever the road loop is about to call addEdge, for every road it may
\* be given: with an id outside [0, vertices) the store is left as it is; with
\* both ids in range the list of u gains the entry (v, w), the list of v gains
\* the entry (u, w), every list keeps the entries it had, and nothing else of
\* the store changes.
C12_AddRoadExact ==
    pc = "road" =>
      \A a \in RoadEnds(city), b \in RoadEnds(city), w \in RoadWeights :
        LET g2 == addEdge(city, a, b, w)
            inRange == /\ 0 <= a /\ a < city.vertices
                       /\ 0 <= b /\ b < city.vertices
        IN /\ ~inRange => g2 = city
           /\ inRange =>
                /\ g2 = [city EXCEPT !.adj = g2.adj]
                /\ \A x \in Slots :
                     Rd(g2.adj, x, << >>) = AddedTo(x, a, b, w) \o Rd(city.adj, x, << >>)

\* the road loop has linked in one road and is about to read another
C12_Witness ==
    /\ pc = "road" /\ city.vertices = 2
    /\ Rd(city.adj, 0, << >>) # << >> /\ Rd(city.adj, 1, << >>) # << >>

\* C13: a rebuild is a full replace: when its junction loop ends no junction
\* has a road, whatever the store held before and whether the old junction
\* count was smaller or larger; from there to the end of the rebuild the store
\* changes only by addEdge of a typed road, so it ends with exactly the valid
\* roads entered.
C13_RebuildReplaces ==
    [][/\ pc' = "roadcount" =>
            \A i \in 0 .. (city'.vertices - 1) : AdjOf(city', oobAdj', i) = << >>
       /\ pc = "roadcount" => city' = city
       /\ pc = "road" =>
            \E a \in RoadEnds(city), b \in RoadEnds(city), w \in RoadWeights :
              city' = addEdge(city, a, b, w)]_vars

\* a rebuild over a snapshot with a road has ended with another junction count
\* and a road of its own
C13_Witness ==
    /\ pc = "menu" /\ built /\ typed = city.vertices
    /\ file.present /\ file.edges # << >> /\ city.vertices # file.v
    /\ \E i \in 0 .. (city.vertices - 1) : Rd(city.adj, i, << >>) # << >>
    /\ \A i \in 0 .. (city.vertices - 1) :
         \A k \in 1 .. Len(Rd(city.adj, i, << >>)) : city.adj[i][k].weight = 10

\* C14: when no sequence of roads leads from the source to the destination,
\* dijkstra ends with the destination at the sentinel distance (it reports
\* "no path") and the map export is given a path of length 0.
C14_UnreachableNoPath ==
    (dpc = "done" /\ PathCosts(src, 0, {src}) = {})
      => (dist[dest] = INF /\ ~Reported /\ path_len = 0 /\ forward = << >>)

\* the search closed more than one junction and never met the destination
C14_Witness ==
    /\ dpc = "done" /\ PathCosts(src, 0, {src}) = {}
    /\ path_len = 0 /\ Cardinality(closed) >= 3 /\ dest \notin closed \ {u}

\* C15: dijkstra(s, s) reports distance 0 and the path made of s alone,
\* whatever the roads and the phases are.
C15_SourceIsDestination ==
    (dpc = "done" /\ src = dest)
      => (Reported /\ dist[dest] = 0 /\ path_len = 1 /\ forward = << src >>)

\* s has a light that would make an arrival wait, and three adjacency entries
C15_Witness ==
    /\ dpc = "done" /\ src = dest /\ forward = << src >>
    /\ getWaitingTime(city.lights[src], 1) > 0
    /\ Len(Rd(city.adj, src, << >>)) >= 3

\* C16: decreaseKey(v, d) for a junction v that has been extracted changes
\* nothing: size, array, every entry's distance and the position index stay.
C16_DecreaseKeyOfExtracted ==
    dpc = "heap" =>
      \A v \in closed, d \in HeapKeys : decreaseKey(h, v, d) = h

\* some junctions are extracted, others are still in the heap with lowered keys
C16_Witness ==
    /\ dpc = "heap" /\ Cardinality(closed) >= 2 /\ h.size >= 2
    /\ \E i \in 0 .. (h.size - 1) : h.arr[i].dist < INF

\* C17 as stated: the search ends with dist[dest] = INF only when no sequence
\* of roads leads from the source to the destination.
C17_Original ==
    (dpc = "done" /\ dist[dest] = INF) => PathCosts(src, 0, {src}) = {}

\* C18: the distances returned by successive extractMin calls never decrease,
\* and no step of the loop changes the distance of an extracted junction.
C18_ExtractionOrder ==
    [][(dpc \in {"loop", "relax"})
         => /\ (closed' # closed /\ hn # NullNode) => hn.dist <= hn'.dist
            /\ \A v \in closed : dist'[v] = dist[v]]_vars

\* three junctions were extracted at growing distances, the last after a wait
C18_Witness ==
    /\ dpc \in {"loop", "relax", "build"} /\ Cardinality(closed) = 3
    /\ hn.dist > 1 /\ hn.dist < INF
    /\ dist[hn.v] = hn.dist /\ parent[hn.v] # src /\ parent[hn.v] # -1

\* cost of walking path from its k-th junction on, having reached it at time t;
\* one cost for every choice among parallel roads
RECURSIVE ReplayCosts(_, _, _)
ReplayCosts(path, k, t) ==
    IF k >= Len(path) THEN {t}
    ELSE LET list == Rd(city.adj, path[k], << >>) IN
         UNION { ReplayCosts(path, k + 1,
                             t + list[j].weight
                               + getWaitingTime(city.lights[path[k + 1]],
                                                t + list[j].weight))
                 : j \in { i \in 1 .. Len(list) : list[i].to = path[k + 1] } }

\* C20: the reported distance is the cost of the reported path: starting at
\* the source at time 0 and adding, for each step, the weight of a road
\* between the two junctions and the wait at the junction entered for that
\* arrival time, gives exactly the reported distance.
C20_DistanceIsPathCost ==
    Reported =>
      /\ forward # << >> /\ forward[1] = src /\ forward[Len(forward)] = dest
      /\ dist[dest] \in ReplayCosts(forward, 1, 0)

\* a reported path of two roads on which waits were paid
C20_Witness ==
    /\ Reported /\ Len(forward) = 3
    /\ dist[dest] >= 4 /\ dist[dest] < INF - 1

\* the longest adjacency list of the store
LongestList ==
    LET lens == {Len(city.adj[i]) : i \in DOMAIN city.adj} \cup {0}
    IN CHOOSE m \in lens : \A x \in lens : x <= m

\* a bound on the steps the search has still to take: one per road left in the
\* list being walked, one list per junction left in the heap, then the report
StepsLeft ==
    CASE dpc = "start" -> 3 + city.vertices * (LongestList + 1)
      [] dpc \in {"loop", "relax"} -> 2 + h.size * (LongestList + 1) + Len(p)
      [] dpc = "build" -> 1
      [] OTHER -> 0

\* C19: a search with in-range source and destination terminates: every step
\* lowers a bound on the steps left, and the search is never stuck (a turn of
\* the road loop has a road to look at, and every junction it names is one of
\* the n junctions of the heap and of dist); no junction is extracted twice, so
\* the loop makes at most n extractions; and the parent walk of a reported
\* path goes from the destination to the source in at most n steps without
\* meeting a junction twice.
C19_Terminates ==
    [][/\ StepsLeft' < StepsLeft /\ StepsLeft' >= 0
       /\ dpc' \in {"loop", "relax", "build", "done", "invalid"}
       /\ dpc' = "relax"
            => /\ p' # << >> /\ u' \in DOMAIN dist'
               /\ Head(p').to \in DOMAIN dist' /\ Head(p').to \in DOMAIN h'.pos
       /\ dpc' = "build" => dest \in DOMAIN dist'
       /\ closed' # closed
            => /\ hn'.v \notin closed
               /\ Cardinality(closed') <= city.vertices
       /\ (dpc' = "done" /\ dist'[dest] # INF)
            => /\ path_len' = Len(forward') /\ path_len' <= city.vertices
               /\ \A i \in 1 .. path_len', j \in 1 .. path_len' :
                    forward'[i] = forward'[j] => i = j
               /\ forward'[1] = src /\ parent'[src] = -1]_vars

\* a search that extracted every junction and walked back over all of them
C19_Witness ==
    /\ dpc = "done" /\ Reported
    /\ Cardinality(closed) = 3 /\ path_len = 3 /\ h.size = 0

\* C21 as stated: between operations every adjacency entry lies in the list of
\* a junction u with 0 <= u < vertices and names a target in [0, vertices);
\* looked at only in runs that have touched nothing outside the arrays.
C21_Original ==
    (pc = "menu" /\ ~ub) =>
      \A a \in DOMAIN city.adj :
        /\ 0 <= a /\ a < city.vertices
        /\ \A k \in 1 .. Len(city.adj[a]) :
             0 <= city.adj[a][k].to /\ city.adj[a][k].to < city.vertices

====
